---- MODULE Spec2Model ----
(***************************************************************************)
(* Authentication and authorization core of the fitness portal API:       *)
(* AuthService (login, refresh with rotation, logout, logoutAll,          *)
(* changePassword, adminResetPassword), the authenticate / requireRole    *)
(* middleware in front of the protected routes, and the admin routes that *)
(* deactivate and update a client.                                        *)
(*                                                                         *)
(* Every request is served by a process.  A process takes one step per    *)
(* awaited record-store call: the step is the call's effect on the store  *)
(* together with the synchronous code that follows it up to the next      *)
(* await.  The clock counts whole seconds, the resolution of a JWT's iat. *)
(*                                                                         *)
(* Spec is the session service with refresh running concurrently to every *)
(* request; SpecAdmin adds the administrator's routes, one request at a   *)
(* time; SpecMiddleware applies the three middlewares to requests;        *)
(* SpecFaults lets the record-store calls raise; SpecIsolation starts     *)
(* from a session of each principal; SpecClient is the web client's       *)
(* response interceptor against a server that answers as it likes.        *)
(***************************************************************************)
EXTENDS Integers, Sequences, FiniteSets, TLC

VARIABLES
    now,            \* the server clock, in seconds
    advances,       \* how often the clock has been advanced
    users,          \* table user: id -> record
    refreshTokens,  \* table refreshToken: a set of rows, token unique
    nextId,         \* the id the next refreshToken row gets
    pc,             \* per process: the await it is suspended at
    req,            \* per process: the locals of the request it serves
    last,           \* the response sent by the latest step, if it sent one
    issued,         \* refresh tokens that a response has handed to a client
    revoked,        \* per operation: the refresh tokens whose row a completed
                    \* request of that kind has deleted
    forced,         \* per principal: a password change/reset has completed
                    \* and no login of the principal has succeeded since
    client          \* the web client: the module state of lib/api.ts, the
                    \* stored refresh token and the requests of the page

vars == <<now, advances, users, refreshTokens, nextId, pc, req, last,
          issued, revoked, forced, client>>

----------------------------------------------------------------------------
(* Bounds of the model *)

MaxRows == 3
MaxAdvance == 1
MaxRequests == 3

Procs == {"p1", "p2"}

----------------------------------------------------------------------------
(* Data *)

UserIds == {"admin", "john"}
AbsentId == "nobody"

Passwords == {"Client123!", "Other456!"}

LoginEmails == {"John@Example.com", "none@example.com"}

\* String.prototype.toLowerCase on the e-mail addresses the model uses
toLowerCase(e) ==
    IF e = "John@Example.com" THEN "john@example.com" ELSE e

SevenDays == 7 * 24 * 60 * 60
ThirtyDays == 30 * 24 * 60 * 60
\* config.jwt.accessExpiry '15m', config.jwt.refreshExpiry '7d', in seconds
accessExpiry == 15 * 60
refreshExpiry == 7 * 24 * 60 * 60

\* a second, and the first second past the lifetime of a refresh token
Steps == {1, SevenDays + 1}

\* bcrypt: salted one-way hash; compare succeeds exactly on the hashed secret
hashPassword(password) == <<"bcrypt", password>>

comparePassword(password, hash) == hash = hashPassword(password)

NoToken ==
    [key |-> "none", userId |-> "", email |-> "", role |-> "", iat |-> 0, exp |-> 0]

\* a token signed with a key the server does not hold
Forged ==
    [key |-> "forged", userId |-> "john", email |-> "john@example.com",
     role |-> "ADMIN", iat |-> 0, exp |-> ThirtyDays * 12]

JwtPayload(user) ==
    [userId |-> user.id, email |-> user.email, role |-> user.role]

\* jwt.sign(payload, secret, {expiresIn}): HS256 over the payload, iat and exp;
\* the same payload signed with the same key in the same second is the same string
jwtSign(payload, key, ttl, t) ==
    [key |-> key, userId |-> payload.userId, email |-> payload.email,
     role |-> payload.role, iat |-> t, exp |-> t + ttl]

generateAccessToken(payload, t) == jwtSign(payload, "access", accessExpiry, t)

generateRefreshToken(payload, t) == jwtSign(payload, "refresh", refreshExpiry, t)

jwtVerifySignatureOnly(token, key, t) ==
    IF token.key # key THEN "JsonWebTokenError" ELSE "ok"

\* jwt.verify(token, secret): signature first, then expiry
jwtVerify(token, key, t) ==
    IF token.key # key THEN "JsonWebTokenError"
    ELSE IF t >= token.exp THEN "TokenExpiredError"
    ELSE "ok"

payloadOf(token) ==
    [userId |-> token.userId, email |-> token.email, role |-> token.role]

\* the access token handed out together with refresh token t
AccessOf(t) == generateAccessToken(payloadOf(t), t.iat)

----------------------------------------------------------------------------
(* Responses: AppError subclasses as rendered by errorHandler *)

Ok == [code |-> "OK", message |-> ""]
UnauthorizedError(m) == [code |-> "UNAUTHORIZED", message |-> m]
ForbiddenError(m) == [code |-> "FORBIDDEN", message |-> m]
NotFoundError(resource) == [code |-> "NOT_FOUND", message |-> resource \o " not found"]
BadRequestError(m) == [code |-> "BAD_REQUEST", message |-> m]
\* any error that is no AppError (a record-store exception) ends here
errorHandlerUnknown == [code |-> "INTERNAL_ERROR", message |-> "Internal server error"]

----------------------------------------------------------------------------
(* Record store *)

NoUser ==
    [id |-> "", email |-> "", name |-> "", passwordHash |-> <<>>,
     role |-> "", active |-> FALSE]

SeedUsers ==
    [u \in UserIds |->
        IF u = "admin"
        THEN [id |-> "admin", email |-> "admin@fitportal.com", name |-> "Coach Mike",
              passwordHash |-> hashPassword("Admin123!"), role |-> "ADMIN", active |-> TRUE]
        ELSE [id |-> "john", email |-> "john@example.com", name |-> "John Smith",
              passwordHash |-> hashPassword("Client123!"), role |-> "CLIENT", active |-> TRUE]]

\* prisma.user.findUnique({where: {id}})
userById(id) == IF id \in UserIds THEN users[id] ELSE NoUser

\* prisma.user.findUnique({where: {email}})
userByEmail(e) ==
    IF \E u \in UserIds : users[u].email = e
    THEN users[CHOOSE u \in UserIds : users[u].email = e]
    ELSE NoUser

NoRow == [id |-> 0, token |-> NoToken, userId |-> "", expiresAt |-> 0]

\* prisma.refreshToken.findUnique({where: {token}})
rowByToken(rows, t) ==
    IF \E r \in rows : r.token = t
    THEN CHOOSE r \in rows : r.token = t
    ELSE NoRow

deleteByIdNone(rows, id) == rows

\* prisma.refreshToken.delete({where: {id}}): the rows left
deleteById(rows, id) == {r \in rows : r.id # id}

deleteManyByTokenNone(rows, t) == rows

\* prisma.refreshToken.deleteMany({where: {token}})
deleteManyByToken(rows, t) == {r \in rows : r.token # t}

deleteManyAll(rows, userId) == {}

\* prisma.refreshToken.deleteMany({where: {userId}})
deleteManyByUser(rows, userId) == {r \in rows : r.userId # userId}

rowsOf(userId) == {r \in refreshTokens : r.userId = userId}
storedTokens == {r.token : r \in refreshTokens}

----------------------------------------------------------------------------
(* Requests *)

\* req.user before authenticate has attached a payload
NoPrincipal == [userId |-> "", email |-> "", role |-> ""]

IdleReq ==
    [op |-> "none", actor |-> "", uid |-> "", tok |-> NoToken, rowId |-> 0,
     newAccess |-> NoToken, newRefresh |-> NoToken, expiresAt |-> 0,
     hash |-> <<>>, active |-> {}, user |-> NoPrincipal, flags |-> {}]

NoResponse ==
    [op |-> "none", out |-> Ok, actor |-> "", uid |-> "", tok |-> NoToken,
     newAccess |-> NoToken, newRefresh |-> NoToken, expiresAt |-> 0,
     user |-> NoPrincipal, flags |-> {}]

\* the response to request r: a success carries the request's data, a failure
\* only the error and what the handler saw
Response(r, out) ==
    IF out = Ok
    THEN [op |-> r.op, out |-> out, actor |-> r.actor, uid |-> r.uid, tok |-> r.tok,
          newAccess |-> r.newAccess, newRefresh |-> r.newRefresh,
          expiresAt |-> r.expiresAt, user |-> r.user, flags |-> r.flags]
    ELSE [NoResponse EXCEPT !.op = r.op, !.out = out, !.flags = r.flags]

\* the operations that delete refreshToken rows
Causes == {"logout", "logoutAll", "changePassword", "adminReset"}

\* the tokens of the rows that a step deletes
deletedTokens(before, after) == {r.token : r \in before \ after}

Revoke(cause, tokens) == [revoked EXCEPT ![cause] = @ \cup tokens]

\* the requests that the page makes through the api instance
RequestIds == 1 .. MaxRequests

\* null, for the access token in memory and for localStorage's refreshToken;
\* the tokens of the client are numbered by the response that brought them
NoStored == 0

NewRequest == [status |-> "new", _retry |-> FALSE, auth |-> NoStored]

\* lib/api.ts as the module is loaded, with refreshToken as localStorage has it
PageLoad(refreshToken) ==
    [accessToken |-> NoStored, refreshToken |-> refreshToken,
     isRefreshing |-> FALSE, failedQueue |-> {},
     requests |-> [i \in RequestIds |-> NewRequest],
     refreshed |-> 0, location |-> "app",
     event |-> [id |-> 0, kind |-> "load"]]

\* processes that will still create a refreshToken row
creating == {q \in Procs : pc[q] \in {"l_create", "r_find", "r_delete", "r_create"}}

Init ==
    /\ now = 0
    /\ advances = 0
    /\ users = SeedUsers
    /\ refreshTokens = {}
    /\ nextId = 1
    /\ pc = [p \in Procs |-> "idle"]
    /\ req = [p \in Procs |-> IdleReq]
    /\ last = NoResponse
    /\ issued = {}
    /\ revoked = [c \in Causes |-> {}]
    /\ forced = [u \in UserIds |-> FALSE]
    /\ client = PageLoad(NoStored)

\* time passes
Advance(d) ==
    /\ advances < MaxAdvance
    /\ now' = now + d
    /\ advances' = advances + 1
    /\ last' = NoResponse
    /\ UNCHANGED <<client, users, refreshTokens, nextId, pc, req, issued, revoked, forced>>

\* the request of process p ends with response out
Finish(p, r, out) ==
    /\ pc' = [pc EXCEPT ![p] = "idle"]
    /\ req' = [req EXCEPT ![p] = IdleReq]
    /\ last' = Response(r, out)

----------------------------------------------------------------------------
(* AuthService.login *)

loginCheckNoActive(user, password) ==
    IF user = NoUser THEN UnauthorizedError("Invalid email or password")
    ELSE IF ~comparePassword(password, user.passwordHash)
    THEN UnauthorizedError("Invalid email or password")
    ELSE Ok

\* the checks of login on the user row it found, in the code's order
loginCheck(user, password) ==
    IF user = NoUser THEN UnauthorizedError("Invalid email or password")
    ELSE IF ~user.active THEN UnauthorizedError("Account is deactivated")
    ELSE IF ~comparePassword(password, user.passwordHash)
    THEN UnauthorizedError("Invalid email or password")
    ELSE Ok

\* expiresAt.setDate(expiresAt.getDate() + 30 | 7), on a clock without DST shifts
loginExpiresAt(rememberMe, t) ==
    IF rememberMe THEN t + ThirtyDays ELSE t + SevenDays

\* findUnique on user, the checks, and the two tokens minted
LoginFind(p, email, password, rememberMe) ==
    /\ pc[p] = "idle"
    /\ LET user == userByEmail(toLowerCase(email))
           out == loginCheck(user, password)
           payload == JwtPayload(user)
           seen == (IF rememberMe THEN {"rememberMe"} ELSE {})
                   \cup (IF user # NoUser /\ user.active THEN {"active"} ELSE {})
                   \cup (IF user # NoUser /\ comparePassword(password, user.passwordHash)
                         THEN {"pwOk"} ELSE {})
           r == [IdleReq EXCEPT
                   !.op = "login", !.uid = user.id, !.flags = seen,
                   !.newAccess = generateAccessToken(payload, now),
                   !.newRefresh = generateRefreshToken(payload, now),
                   !.expiresAt = loginExpiresAt(rememberMe, now)]
       IN IF out = Ok
          THEN /\ (nextId - 1) + Cardinality(creating) < MaxRows
               /\ pc' = [pc EXCEPT ![p] = "l_create"]
               /\ req' = [req EXCEPT ![p] = r]
               /\ last' = NoResponse
          ELSE Finish(p, r, out)
    /\ UNCHANGED <<client, now, advances, users, refreshTokens, nextId, issued, revoked, forced>>

\* prisma.refreshToken.create: token is a unique column
LoginCreate(p) ==
    /\ pc[p] = "l_create"
    /\ LET r == req[p] IN
       IF r.newRefresh \in storedTokens
       THEN /\ Finish(p, r, errorHandlerUnknown)
            /\ UNCHANGED <<refreshTokens, nextId, issued, forced>>
       ELSE /\ refreshTokens' = refreshTokens \cup
                   {[id |-> nextId, token |-> r.newRefresh, userId |-> r.uid,
                     expiresAt |-> r.expiresAt]}
            /\ nextId' = nextId + 1
            /\ issued' = issued \cup {r.newRefresh}
            /\ forced' = [forced EXCEPT ![r.uid] = FALSE]
            /\ Finish(p, r, Ok)
    /\ UNCHANGED <<client, now, advances, users, revoked>>

----------------------------------------------------------------------------
(* AuthService.refreshAccessToken *)

PresentableTokens == issued \cup {Forged}

\* jwt.verify of the presented token; any failure is one and the same error
RefreshCall(p, t) ==
    /\ pc[p] = "idle"
    /\ LET row == rowByToken(refreshTokens, t)
           r == [IdleReq EXCEPT
                   !.op = "refresh", !.tok = t, !.uid = t.userId,
                   !.flags = {c \in Causes : t \in revoked[c]}
                       \cup (IF t.key # "refresh" THEN {"wrongKey"} ELSE {})
                       \cup (IF now >= t.exp THEN {"pastExpiry"} ELSE {})
                       \cup (IF row # NoRow /\ row.expiresAt < now
                             THEN {"rowExpired"} ELSE {})
                       \cup (IF row # NoRow /\ row.expiresAt > now
                                /\ userById(row.userId).active
                             THEN {"rowLive"} ELSE {})]
       IN IF jwtVerify(t, "refresh", now) # "ok"
          THEN Finish(p, r, UnauthorizedError("Invalid refresh token"))
          ELSE /\ (nextId - 1) + Cardinality(creating) < MaxRows
               /\ pc' = [pc EXCEPT ![p] = "r_find"]
               /\ req' = [req EXCEPT ![p] = r]
               /\ last' = NoResponse
    /\ UNCHANGED <<client, now, advances, users, refreshTokens, nextId, issued, revoked, forced>>

\* findUnique on refreshToken (include user), the checks, the new tokens minted
RefreshFind(p) ==
    /\ pc[p] = "r_find"
    /\ LET r == req[p]
           storedToken == rowByToken(refreshTokens, r.tok)
           user == userById(storedToken.userId)
           newPayload == JwtPayload(user)
       IN IF storedToken = NoRow
          THEN Finish(p, r, UnauthorizedError("Refresh token not found"))
          ELSE IF storedToken.expiresAt < now
          THEN /\ pc' = [pc EXCEPT ![p] = "r_delete"]
               /\ req' = [req EXCEPT ![p] =
                    [r EXCEPT !.rowId = storedToken.id,
                              !.flags = r.flags \cup {"expired"}]]
               /\ last' = NoResponse
          ELSE IF ~user.active
          THEN Finish(p, r, UnauthorizedError("Account is deactivated"))
          ELSE /\ pc' = [pc EXCEPT ![p] = "r_delete"]
               /\ req' = [req EXCEPT ![p] =
                    [r EXCEPT !.rowId = storedToken.id, !.uid = user.id,
                              !.newAccess = generateAccessToken(newPayload, now),
                              !.newRefresh = generateRefreshToken(newPayload, now),
                              !.flags = r.flags \cup
                                  (IF storedToken.expiresAt > now + SevenDays
                                   THEN {"longer"} ELSE {})]]
               /\ last' = NoResponse
    /\ UNCHANGED <<client, now, advances, users, refreshTokens, nextId, issued, revoked, forced>>

\* prisma.refreshToken.delete({where: {id}}) of the row found, at either call
\* site; it raises when the row is gone
RefreshDelete(p) ==
    /\ pc[p] = "r_delete"
    /\ LET r == req[p] IN
       IF ~(\E row \in refreshTokens : row.id = r.rowId)
       THEN /\ Finish(p, r, errorHandlerUnknown)
            /\ UNCHANGED refreshTokens
       ELSE /\ refreshTokens' = deleteById(refreshTokens, r.rowId)
            /\ IF "expired" \in r.flags
               THEN Finish(p, r, UnauthorizedError("Refresh token expired"))
               ELSE /\ pc' = [pc EXCEPT ![p] = "r_create"]
                    /\ req' = [req EXCEPT ![p] = [r EXCEPT !.expiresAt = now + SevenDays]]
                    /\ last' = NoResponse
    /\ UNCHANGED <<client, now, advances, users, nextId, issued, revoked, forced>>

\* a refresh call in flight with the token that process p presented
racing(p, q) ==
    /\ q # p
    /\ pc[q] # "idle"
    /\ req[q].op = "refresh"
    /\ req[q].tok = req[p].tok

\* prisma.refreshToken.create of the rotated row, and the response
RefreshCreate(p) ==
    /\ pc[p] = "r_create"
    /\ LET r == req[p] IN
       IF r.newRefresh \in storedTokens
       THEN /\ Finish(p, r, errorHandlerUnknown)
            /\ UNCHANGED <<refreshTokens, nextId, issued>>
       ELSE /\ refreshTokens' = refreshTokens \cup
                   {[id |-> nextId, token |-> r.newRefresh, userId |-> r.uid,
                     expiresAt |-> r.expiresAt]}
            /\ nextId' = nextId + 1
            /\ issued' = issued \cup {r.newRefresh}
            /\ pc' = [pc EXCEPT ![p] = "idle"]
            /\ req' = [q \in Procs |->
                         IF q = p THEN IdleReq
                         ELSE IF racing(p, q)
                         THEN [req[q] EXCEPT !.flags = @ \cup {"lost"}]
                         ELSE req[q]]
            /\ last' = Response(r, Ok)
    /\ UNCHANGED <<client, now, advances, users, revoked, forced>>

----------------------------------------------------------------------------
(* AuthService.logout *)

\* deleteMany({where: {token}}): no check of the token, no error on zero rows
Logout(p, t) ==
    /\ pc[p] = "idle"
    /\ refreshTokens' = deleteManyByToken(refreshTokens, t)
    /\ revoked' = Revoke("logout", deletedTokens(refreshTokens, refreshTokens'))
    /\ Finish(p, [IdleReq EXCEPT !.op = "logout", !.tok = t, !.uid = t.userId], Ok)
    /\ UNCHANGED <<client, now, advances, users, nextId, issued, forced>>

----------------------------------------------------------------------------
(* Middleware in front of the protected routes *)

\* requireRole(...) of the route; no requireRole admits every role
rolesOf(route) ==
    IF route \in {"adminReset", "deactivate", "patchClient"}
    THEN {"ADMIN"} ELSE {"ADMIN", "CLIENT"}

\* the access token of a login of the administrator at second 0
AdminAccess == generateAccessToken(JwtPayload(SeedUsers["admin"]), 0)

\* what the Authorization header of a request can carry
Bearers == {NoToken, Forged, AdminAccess} \cup {AccessOf(t) : t \in issued}

authenticateNoUserCheck(bearer) ==
    IF bearer = NoToken THEN UnauthorizedError("No token provided")
    ELSE IF jwtVerify(bearer, "access", now) = "TokenExpiredError"
    THEN UnauthorizedError("Token expired")
    ELSE IF jwtVerify(bearer, "access", now) = "JsonWebTokenError"
    THEN UnauthorizedError("Invalid token")
    ELSE Ok

authenticateStored(bearer) ==
    IF rowsOf(bearer.userId) = {} THEN UnauthorizedError("Invalid token")
    ELSE authenticateNoUserCheck(bearer)

\* authenticate: the bearer token verified, the user re-read
authenticate(bearer) ==
    IF bearer = NoToken THEN UnauthorizedError("No token provided")
    ELSE IF jwtVerify(bearer, "access", now) = "TokenExpiredError"
    THEN UnauthorizedError("Token expired")
    ELSE IF jwtVerify(bearer, "access", now) = "JsonWebTokenError"
    THEN UnauthorizedError("Invalid token")
    ELSE IF userById(bearer.userId) = NoUser \/ ~userById(bearer.userId).active
    THEN UnauthorizedError("User not found or inactive")
    ELSE Ok

requireRoleAny(roles, user) ==
    IF user = NoPrincipal THEN UnauthorizedError("Not authenticated") ELSE Ok

\* requireRole(...roles) on req.user
requireRole(roles, user) ==
    IF user = NoPrincipal THEN UnauthorizedError("Not authenticated")
    ELSE IF user.role \notin roles
    THEN ForbiddenError("Insufficient permissions")
    ELSE Ok

\* authenticate, then the route's requireRole, on one request
guard(route, bearer) ==
    IF authenticate(bearer) # Ok THEN authenticate(bearer)
    ELSE requireRole(rolesOf(route), payloadOf(bearer))

\* the request as it reaches the handler: req.user is the token's payload
Guarded(route, bearer) ==
    [IdleReq EXCEPT !.op = route, !.actor = bearer.userId, !.user = payloadOf(bearer)]

requireOwnershipPass(user, param, body) ==
    IF user = NoPrincipal THEN UnauthorizedError("Not authenticated") ELSE Ok

requireOwnershipBodyFirst(user, param, body) ==
    IF user = NoPrincipal THEN UnauthorizedError("Not authenticated")
    ELSE IF user.role = "ADMIN" THEN Ok
    ELSE LET resourceClientId == IF body # "" THEN body ELSE param
         IN IF resourceClientId # "" /\ resourceClientId # user.userId
            THEN ForbiddenError("Cannot access another user's data")
            ELSE Ok

\* requireOwnership(paramName) on req.user, req.params[paramName] and
\* req.body[paramName]; "" stands for a field that is absent or empty
requireOwnership(user, param, body) ==
    IF user = NoPrincipal THEN UnauthorizedError("Not authenticated")
    ELSE IF user.role = "ADMIN" THEN Ok
    ELSE LET resourceClientId == IF param # "" THEN param ELSE body
         IN IF resourceClientId # "" /\ resourceClientId # user.userId
            THEN ForbiddenError("Cannot access another user's data")
            ELSE Ok

\* the access token of a principal whose user row no longer exists
AbsentAccess ==
    generateAccessToken(
        [userId |-> AbsentId, email |-> "gone@example.com", role |-> "CLIENT"], 0)

\* what a bearer token presented to authenticate is like
bearerKind(bearer) ==
    IF bearer = NoToken THEN {"noToken"}
    ELSE (IF bearer.key # "access" THEN {"wrongKey"} ELSE {})
         \cup (IF now >= bearer.exp THEN {"pastExpiry"} ELSE {})
         \cup (IF bearer.key = "refresh" THEN {"refreshKey"} ELSE {})

\* authenticate as a middleware of its own: it attaches req.user and passes
\* the request on, or ends it
Authenticate(p, bearer) ==
    /\ pc[p] = "idle"
    /\ LET out == authenticate(bearer)
           r == [IdleReq EXCEPT !.op = "authenticate", !.flags = bearerKind(bearer)]
       IN IF out = Ok
          THEN /\ pc' = [pc EXCEPT ![p] = "mw_next"]
               /\ req' = [req EXCEPT ![p] =
                            [r EXCEPT !.actor = bearer.userId, !.user = payloadOf(bearer)]]
               /\ last' = NoResponse
          ELSE Finish(p, r, out)
    /\ UNCHANGED <<client, now, advances, users, refreshTokens, nextId, issued, revoked, forced>>

\* requireRole(...roles) on a request that authenticate passed on, or on one
\* of a route without authenticate; Ok stands for next()
RequireRole(p, roles) ==
    /\ pc[p] \in {"idle", "mw_next"}
    /\ LET user == req[p].user
           r == [req[p] EXCEPT !.op = "requireRole",
                               !.flags = roles \cup (IF user = NoPrincipal
                                                     THEN {"noPrincipal"}
                                                     ELSE {"as" \o user.role})]
       IN Finish(p, r, requireRole(roles, user))
    /\ UNCHANGED <<client, now, advances, users, refreshTokens, nextId, issued, revoked, forced>>

\* requireOwnership(paramName) on such a request
RequireOwnership(p, param, body) ==
    /\ pc[p] \in {"idle", "mw_next"}
    /\ LET user == req[p].user
           own == {"", user.userId}
           r == [req[p] EXCEPT !.op = "requireOwnership",
                   !.flags = (IF user = NoPrincipal THEN {"noPrincipal"} ELSE {user.role})
                       \cup (IF param = "" THEN {"noParam"} ELSE {})
                       \cup (IF body = "" THEN {"noBody"} ELSE {})
                       \cup (IF param \notin own THEN {"paramOther"} ELSE {})
                       \cup (IF body \notin own THEN {"bodyOther"} ELSE {})]
       IN Finish(p, r, requireOwnership(user, param, body))
    /\ UNCHANGED <<client, now, advances, users, refreshTokens, nextId, issued, revoked, forced>>

----------------------------------------------------------------------------
(* AuthService.logoutAll, changePassword, adminResetPassword *)

\* POST /auth/logout-all: deleteMany({where: {userId}}) for req.user.userId
LogoutAll(p, bearer) ==
    /\ pc[p] = "idle"
    /\ LET r == [Guarded("logoutAll", bearer) EXCEPT !.uid = bearer.userId,
                                                    !.flags = bearerKind(bearer)]
           out == guard("logoutAll", bearer)
       IN IF out = Ok
          THEN /\ refreshTokens' = deleteManyByUser(refreshTokens, r.actor)
               /\ revoked' = Revoke("logoutAll",
                                      deletedTokens(refreshTokens, refreshTokens'))
               /\ Finish(p, r, Ok)
          ELSE /\ UNCHANGED <<refreshTokens, revoked>>
               /\ Finish(p, r, out)
    /\ UNCHANGED <<client, now, advances, users, nextId, issued, forced>>

\* the checks of changePassword on the user row it found
changePasswordCheck(user, currentPassword) ==
    IF user = NoUser THEN NotFoundError("User")
    ELSE IF ~comparePassword(currentPassword, user.passwordHash)
    THEN BadRequestError("Current password is incorrect")
    ELSE Ok

\* POST /auth/change-password: findUnique on user, compare, hash
ChangePasswordFind(p, bearer, currentPassword, newPassword) ==
    /\ pc[p] = "idle"
    /\ LET g == guard("changePassword", bearer)
           user == userById(bearer.userId)
           out == IF g # Ok THEN g ELSE changePasswordCheck(user, currentPassword)
           r == [Guarded("changePassword", bearer) EXCEPT !.uid = bearer.userId,
                               !.hash = hashPassword(newPassword),
                               !.flags = IF user # NoUser /\
                                   comparePassword(currentPassword, user.passwordHash)
                                         THEN {"pwOk"} ELSE {}]
       IN IF out = Ok
          THEN /\ pc' = [pc EXCEPT ![p] = "pw_update"]
               /\ req' = [req EXCEPT ![p] = r]
               /\ last' = NoResponse
          ELSE Finish(p, r, out)
    /\ UNCHANGED <<client, now, advances, users, refreshTokens, nextId, issued, revoked, forced>>

\* POST /auth/admin/reset-password: findUnique on user, hash; no current secret
AdminResetFind(p, bearer, clientId, newPassword) ==
    /\ pc[p] = "idle"
    /\ LET g == guard("adminReset", bearer)
           user == userById(clientId)
           out == IF g # Ok THEN g
                  ELSE IF user = NoUser THEN NotFoundError("User") ELSE Ok
           r == [Guarded("adminReset", bearer) EXCEPT
                   !.uid = clientId, !.hash = hashPassword(newPassword)]
       IN IF out = Ok
          THEN /\ pc' = [pc EXCEPT ![p] = "pw_update"]
               /\ req' = [req EXCEPT ![p] = r]
               /\ last' = NoResponse
          ELSE Finish(p, r, out)
    /\ UNCHANGED <<client, now, advances, users, refreshTokens, nextId, issued, revoked, forced>>

\* prisma.user.update({data: {passwordHash}}) of either password operation
PasswordUpdate(p) ==
    /\ pc[p] = "pw_update"
    /\ users' = [users EXCEPT ![req[p].uid].passwordHash = req[p].hash]
    /\ pc' = [pc EXCEPT ![p] = "pw_logoutAll"]
    /\ last' = NoResponse
    /\ UNCHANGED <<client, now, advances, refreshTokens, nextId, req, issued, revoked, forced>>

\* this.logoutAll(userId) that ends either password operation
PasswordLogoutAll(p) ==
    /\ pc[p] = "pw_logoutAll"
    /\ refreshTokens' = deleteManyByUser(refreshTokens, req[p].uid)
    /\ forced' = [forced EXCEPT ![req[p].uid] = TRUE]
    /\ revoked' = Revoke(req[p].op, deletedTokens(refreshTokens, refreshTokens'))
    /\ Finish(p, req[p], Ok)
    /\ UNCHANGED <<client, now, advances, users, nextId, issued>>

----------------------------------------------------------------------------
(* Admin routes on a client *)

\* prisma.user.findUnique({where: {id: clientId, role: 'CLIENT'}})
clientById(clientId) ==
    IF userById(clientId) # NoUser /\ userById(clientId).role = "CLIENT"
    THEN userById(clientId) ELSE NoUser

\* the lookup of either route, behind authenticate and requireRole('ADMIN');
\* active is {} when the body leaves it out
ClientFind(p, route, bearer, clientId, active) ==
    /\ pc[p] = "idle"
    /\ LET g == guard(route, bearer)
           out == IF g # Ok THEN g
                  ELSE IF clientById(clientId) = NoUser THEN NotFoundError("Client")
                  ELSE Ok
           r == [Guarded(route, bearer) EXCEPT !.uid = clientId, !.active = active]
       IN IF out = Ok
          THEN /\ pc' = [pc EXCEPT ![p] = "cl_update"]
               /\ req' = [req EXCEPT ![p] = r]
               /\ last' = NoResponse
          ELSE Finish(p, r, out)
    /\ UNCHANGED <<client, now, advances, users, refreshTokens, nextId, issued, revoked, forced>>

\* DELETE /users/clients/:clientId: data is {active: false}
DeactivateFind(p, bearer, clientId) ==
    ClientFind(p, "deactivate", bearer, clientId, {FALSE})

\* PATCH /users/clients/:clientId: data carries the body's active
PatchClientFind(p, bearer, clientId, active) ==
    ClientFind(p, "patchClient", bearer, clientId, active)

\* prisma.user.update of the two routes: the active flag, when given, is set;
\* no refreshToken row is touched
ClientUpdate(p) ==
    /\ pc[p] = "cl_update"
    /\ users' = [users EXCEPT ![req[p].uid].active =
                    IF req[p].active = {} THEN @ ELSE CHOOSE b \in req[p].active : TRUE]
    /\ Finish(p, req[p], Ok)
    /\ UNCHANGED <<client, now, advances, refreshTokens, nextId, issued, revoked, forced>>

----------------------------------------------------------------------------
(* PATCH /users/profile *)

\* req.body.active of the routes that update a user
ActiveInputs == {{}, {TRUE}, {FALSE}}

\* request bodies: a field is {} when the body leaves it out; role and active
\* are fields that updateProfileSchema does not know
ProfileBodies ==
    [name : {{}, {"Johnny"}}, role : {{}, {"ADMIN"}}, active : ActiveInputs]

profileDataAll(body) == body

\* the data of prisma.user.update: of the body the handler reads name (and
\* the clientProfile fields height, goal, timezone)
profileData(body) == [name |-> body.name]

\* prisma.user.update({data}) on one row: a field that data leaves out or
\* gives as undefined keeps its value
updateUser(user, data) ==
    [f \in DOMAIN user |->
        IF f \in DOMAIN data /\ data[f] # {}
        THEN CHOOSE v \in data[f] : TRUE
        ELSE user[f]]

\* PATCH /users/profile behind authenticate: the update of the own row
UpdateProfile(p, bearer, body) ==
    /\ pc[p] = "idle"
    /\ LET r == [Guarded("updateProfile", bearer) EXCEPT !.uid = bearer.userId]
           out == authenticate(bearer)
       IN IF out = Ok
          THEN /\ users' = [users EXCEPT ![bearer.userId] =
                              updateUser(@, profileData(body))]
               /\ Finish(p, r, Ok)
          ELSE /\ UNCHANGED users
               /\ Finish(p, r, out)
    /\ UNCHANGED <<client, now, advances, refreshTokens, nextId, issued, revoked, forced>>

----------------------------------------------------------------------------
(* Next-state relations *)

\* Request slots: p1 serves every route, p2 serves POST /auth/refresh only, so
\* a refresh runs concurrently with a request of any kind, itself included
Workers == {"p1"}
ClientIds == UserIds \cup {AbsentId}

\* a request that the middleware rejects is drawn once, not once per body
Body(p, route, bearer, isFirst) ==
    pc[p] = "idle" /\ (isFirst \/ guard(route, bearer) = Ok)

\* a rejected login is drawn once, not once per rememberMe
LoginBody(p, email, password, rememberMe) ==
    pc[p] = "idle" /\
    (~rememberMe \/ loginCheck(userByEmail(toLowerCase(email)), password) = Ok)

\* the session service: its requests, and refresh concurrent with them
Next ==
    \/ \E d \in Steps : Advance(d)
    \/ \E p \in Workers, e \in LoginEmails, pw \in Passwords, rm \in BOOLEAN :
          LoginBody(p, e, pw, rm) /\ LoginFind(p, e, pw, rm)
    \/ \E p \in Workers : LoginCreate(p)
    \/ \E p \in Procs, t \in PresentableTokens : RefreshCall(p, t)
    \/ \E p \in Procs : RefreshFind(p)
    \/ \E p \in Procs : RefreshDelete(p)
    \/ \E p \in Procs : RefreshCreate(p)
    \/ \E p \in Workers, t \in PresentableTokens : Logout(p, t)
    \/ \E p \in Workers, b \in Bearers : LogoutAll(p, b)
    \/ \E p \in Workers, b \in Bearers \ {AdminAccess}, cur \in Passwords,
          new \in Passwords :
          /\ Body(p, "changePassword", b, cur = "Client123!" /\ new = "Client123!")
          /\ ChangePasswordFind(p, b, cur, new)
    \/ \E p \in Workers : PasswordUpdate(p)
    \/ \E p \in Workers : PasswordLogoutAll(p)

Spec == Init /\ [][Next]_vars

\* the administrator's routes with the clients' login, refresh and profile
\* update, one request at a time
NextAdmin ==
    \/ \E d \in Steps : Advance(d)
    \/ \E p \in Workers, e \in LoginEmails, pw \in Passwords, rm \in BOOLEAN :
          LoginBody(p, e, pw, rm) /\ LoginFind(p, e, pw, rm)
    \/ \E p \in Workers : LoginCreate(p)
    \/ \E p \in Workers, t \in PresentableTokens : RefreshCall(p, t)
    \/ \E p \in Workers : RefreshFind(p)
    \/ \E p \in Workers : RefreshDelete(p)
    \/ \E p \in Workers : RefreshCreate(p)
    \/ \E p \in Workers, b \in Bearers, id \in ClientIds \ {"admin"},
          new \in Passwords :
          /\ Body(p, "adminReset", b, id = AbsentId /\ new = "Client123!")
          /\ AdminResetFind(p, b, id, new)
    \/ \E p \in Workers : PasswordUpdate(p)
    \/ \E p \in Workers : PasswordLogoutAll(p)
    \/ \E p \in Workers, b \in Bearers, id \in ClientIds :
          /\ Body(p, "deactivate", b, id = AbsentId)
          /\ DeactivateFind(p, b, id)
    \/ \E p \in Workers, b \in Bearers, id \in ClientIds, a \in ActiveInputs :
          /\ Body(p, "patchClient", b, id = AbsentId /\ a = {})
          /\ PatchClientFind(p, b, id, a)
    \/ \E p \in Workers : ClientUpdate(p)
    \/ \E p \in Workers, b \in Bearers \ {AdminAccess}, body \in ProfileBodies :
          /\ Body(p, "updateProfile", b,
                  body = [name |-> {}, role |-> {}, active |-> {}])
          /\ UpdateProfile(p, b, body)

SpecAdmin == Init /\ [][NextAdmin]_vars

\* a client that logged in at second 0, and is active or has been deactivated
InitMiddleware ==
    /\ now = 0
    /\ advances = 0
    /\ \E a \in BOOLEAN : users = [SeedUsers EXCEPT !["john"].active = a]
    /\ refreshTokens =
          {[id |-> 1, token |-> generateRefreshToken(JwtPayload(SeedUsers["john"]), 0),
            userId |-> "john", expiresAt |-> SevenDays]}
    /\ nextId = 2
    /\ pc = [p \in Procs |-> "idle"]
    /\ req = [p \in Procs |-> IdleReq]
    /\ last = NoResponse
    /\ issued = {generateRefreshToken(JwtPayload(SeedUsers["john"]), 0)}
    /\ revoked = [c \in Causes |-> {}]
    /\ forced = [u \in UserIds |-> FALSE]
    /\ client = PageLoad(NoStored)

\* bearer tokens presented to authenticate: those of the routes, a refresh
\* token in place of an access token, and the token of a deleted principal
MiddlewareBearers == Bearers \cup issued \cup {AbsentAccess}
RoleSets == {{"ADMIN"}, {"CLIENT"}, {"ADMIN", "CLIENT"}}
OwnerInputs == UserIds \cup {""}

\* the three middlewares of the access guard, each applied to requests
NextMiddleware ==
    \/ \E d \in Steps : Advance(d)
    \/ \E p \in Workers, b \in MiddlewareBearers : Authenticate(p, b)
    \/ \E p \in Workers, roles \in RoleSets : RequireRole(p, roles)
    \/ \E p \in Workers, param \in OwnerInputs, body \in OwnerInputs :
          RequireOwnership(p, param, body)

SpecMiddleware == InitMiddleware /\ [][NextMiddleware]_vars

----------------------------------------------------------------------------
(* Record-store failures *)

\* an error that is no AppError: it has a class and carries no code
Thrown(class) == [code |-> "", message |-> class]

\* what a prisma call raises when the store fails
PrismaError == Thrown("PrismaClientKnownRequestError")

\* errorHandler: an AppError is rendered with its own code and message,
\* every other error as 500 INTERNAL_ERROR
errorHandler(err) == IF err.code # "" THEN err ELSE errorHandlerUnknown

authenticateCatchAll(error) ==
    IF error = Thrown("TokenExpiredError") THEN UnauthorizedError("Token expired")
    ELSE UnauthorizedError("Invalid token")

\* the catch block of authenticate: the two JWT error classes become
\* Unauthorized, every other error is passed on as it is
authenticateCatch(error) ==
    IF error = Thrown("TokenExpiredError") THEN UnauthorizedError("Token expired")
    ELSE IF error = Thrown("JsonWebTokenError") THEN UnauthorizedError("Invalid token")
    ELSE error

\* routes whose first record-store call is the service's own
UnguardedRoutes == {"login", "logout"}
\* routes behind authenticate, and authenticate in front of any other route
GuardedRoutes == {"logoutAll", "changePassword", "adminReset", "authenticate"}

\* the first record-store call of a request raises: the call of the service
\* itself, or the findUnique of authenticate once the bearer token is verified
FirstCallRaises(p, route, bearer) ==
    /\ pc[p] = "idle"
    /\ LET r == [IdleReq EXCEPT !.op = route, !.flags = {"storeError"}] IN
       IF route \in UnguardedRoutes
       THEN /\ bearer = NoToken
            /\ Finish(p, r, errorHandler(PrismaError))
       ELSE /\ bearer # NoToken
            /\ jwtVerify(bearer, "access", now) = "ok"
            /\ Finish(p, r, errorHandler(authenticateCatch(PrismaError)))
    /\ UNCHANGED <<client, now, advances, users, refreshTokens, nextId, issued, revoked, forced>>

\* the first record-store call of the service raises behind the middleware
HandlerCallRaises(p, route, bearer) ==
    /\ pc[p] = "idle"
    /\ guard(route, bearer) = Ok
    /\ Finish(p, [Guarded(route, bearer) EXCEPT !.flags = {"storeError", "inHandler"}],
              errorHandler(PrismaError))
    /\ UNCHANGED <<client, now, advances, users, refreshTokens, nextId, issued, revoked, forced>>

\* the record-store call that a request is suspended at raises; no service
\* method has a try around a prisma call
StoreRaises(p) ==
    /\ pc[p] \in {"l_create", "r_find", "r_delete", "r_create",
                  "pw_update", "pw_logoutAll"}
    /\ Finish(p, [req[p] EXCEPT !.flags = @ \cup {"storeError"}],
              errorHandler(PrismaError))
    /\ UNCHANGED <<client, now, advances, users, refreshTokens, nextId, issued, revoked, forced>>

\* the session service, one request at a time, on a record store whose calls
\* may raise
NextFaults ==
    \/ \E p \in Workers, e \in LoginEmails, pw \in Passwords, rm \in BOOLEAN :
          LoginBody(p, e, pw, rm) /\ LoginFind(p, e, pw, rm)
    \/ \E p \in Workers : LoginCreate(p)
    \/ \E p \in Workers, t \in PresentableTokens : RefreshCall(p, t)
    \/ \E p \in Workers : RefreshFind(p)
    \/ \E p \in Workers : RefreshDelete(p)
    \/ \E p \in Workers : RefreshCreate(p)
    \/ \E p \in Workers, b \in Bearers \ {AdminAccess}, cur \in Passwords,
          new \in Passwords :
          /\ Body(p, "changePassword", b, cur = "Client123!" /\ new = "Client123!")
          /\ ChangePasswordFind(p, b, cur, new)
    \/ \E p \in Workers, b \in Bearers, id \in ClientIds \ {"admin"},
          new \in Passwords :
          /\ Body(p, "adminReset", b, id = AbsentId /\ new = "Client123!")
          /\ AdminResetFind(p, b, id, new)
    \/ \E p \in Workers : PasswordUpdate(p)
    \/ \E p \in Workers : PasswordLogoutAll(p)
    \/ \E p \in Workers, route \in UnguardedRoutes \cup GuardedRoutes,
          b \in Bearers : FirstCallRaises(p, route, b)
    \/ \E p \in Workers, route \in GuardedRoutes \ {"authenticate"},
          b \in Bearers : HandlerCallRaises(p, route, b)
    \/ \E p \in Workers : StoreRaises(p)

SpecFaults == Init /\ [][NextFaults]_vars

----------------------------------------------------------------------------
(* The web client: the interceptors of lib/api.ts *)

\* the variables of the server, which no step of the client touches
server ==
    <<now, advances, users, refreshTokens, nextId, pc, req, last,
      issued, revoked, forced>>

\* the token pair of the login that preceded the page's requests
LoginPair == 1

\* error responses: Unauthorized, and any other failure
HttpErrors == {401, 500}

\* the request interceptor: the access token in memory, when there is one,
\* replaces the Authorization header of the request
requestInterceptor(accessToken, auth) ==
    IF accessToken # NoStored THEN accessToken ELSE auth

interceptorBranchNoQueue(status, retry, isRefreshing, refreshToken) ==
    IF status = 401 /\ ~retry
    THEN IF refreshToken = NoStored THEN "noToken" ELSE "refresh"
    ELSE "reject"

\* the path that the response interceptor's error handler takes
interceptorBranch(status, retry, isRefreshing, refreshToken) ==
    IF status = 401 /\ ~retry
    THEN IF isRefreshing THEN "queue"
         ELSE IF refreshToken = NoStored THEN "noToken"
         ELSE "refresh"
    ELSE "reject"

\* processQueue(error, token) on the requests waiting in queue: the promise of
\* each is rejected, or resolved with the token, whose then re-sends the
\* request, or left alone when there is neither error nor token
processQueue(requests, queue, error, token) ==
    [i \in RequestIds |->
        IF i \notin queue THEN requests[i]
        ELSE IF error THEN [requests[i] EXCEPT !.status = "rejected"]
        ELSE IF token # NoStored
        THEN [requests[i] EXCEPT !.status = "sent",
                                 !.auth = requestInterceptor(token, token)]
        ELSE requests[i]]

\* api(config): the request goes out with the header the interceptor gives it
Send(i) ==
    /\ client.requests[i].status = "new"
    /\ client' = [client EXCEPT
          !.requests[i].status = "sent",
          !.requests[i].auth = requestInterceptor(client.accessToken, @),
          !.event = [id |-> i, kind |-> "send"]]
    /\ UNCHANGED server

\* a 2xx response: the interceptor passes it through
ResponseOk(i) ==
    /\ client.requests[i].status = "sent"
    /\ client' = [client EXCEPT !.requests[i].status = "done",
                                !.event = [id |-> i, kind |-> "2xx"]]
    /\ UNCHANGED server

\* an error response: the error handler of the response interceptor, up to
\* its return or to the await of the refresh request
ResponseError(i, status) ==
    /\ client.requests[i].status = "sent"
    /\ LET r == client.requests[i]
           branch == interceptorBranch(status, r._retry, client.isRefreshing,
                                       client.refreshToken)
           seen == [client EXCEPT
                      !.event = [id |-> i, kind |-> IF status = 401 THEN "401"
                                                   ELSE "error"]]
       IN client' =
            IF branch = "reject"
            THEN [seen EXCEPT !.requests[i].status = "rejected"]
            ELSE IF branch = "queue"
            THEN [seen EXCEPT !.requests[i].status = "queued",
                              !.failedQueue = @ \cup {i}]
            ELSE IF branch = "noToken"
            THEN [seen EXCEPT
                    !.requests = [processQueue(client.requests, client.failedQueue,
                                               TRUE, NoStored)
                                    EXCEPT ![i] = [r EXCEPT !.status = "rejected",
                                                           !._retry = TRUE]],
                    !.failedQueue = {},
                    !.isRefreshing = TRUE,
                    !.accessToken = NoStored,
                    !.refreshToken = NoStored,
                    !.location = "/login"]
            ELSE [seen EXCEPT !.requests[i].status = "refreshing",
                              !.requests[i]._retry = TRUE,
                              !.isRefreshing = TRUE]
    /\ UNCHANGED server

\* what comes back for POST /auth/refresh: the new token pair, an error
\* status, or a 2xx body without success and data
RefreshOutcomes == {"success", "error", "unsuccessful"}

\* the refresh request returns: the rest of the error handler, its finally
\* included
RefreshResponse(i, outcome) ==
    /\ client.requests[i].status = "refreshing"
    /\ LET new == client.refreshed + LoginPair + 1
           seen == [client EXCEPT !.event = [id |-> i, kind |-> outcome],
                                  !.isRefreshing = FALSE]
       IN client' =
            IF outcome = "success"
            THEN [seen EXCEPT
                    !.accessToken = new,
                    !.refreshToken = new,
                    !.refreshed = @ + 1,
                    !.requests = [processQueue(client.requests, client.failedQueue,
                                               FALSE, new)
                                    EXCEPT ![i].status = "sent",
                                           ![i].auth = requestInterceptor(new, new)],
                    !.failedQueue = {}]
            ELSE IF outcome = "error"
            THEN [seen EXCEPT
                    !.requests = [processQueue(client.requests, client.failedQueue,
                                               TRUE, NoStored)
                                    EXCEPT ![i].status = "rejected"],
                    !.failedQueue = {},
                    !.accessToken = NoStored,
                    !.refreshToken = NoStored,
                    !.location = "/login"]
            ELSE [seen EXCEPT !.requests[i].status = "rejected"]
    /\ UNCHANGED server

\* window.location.href = '/login' takes effect: the page is loaded anew and
\* what was pending on the old page is gone
Navigate ==
    /\ client.location = "/login"
    /\ client' = [PageLoad(client.refreshToken) EXCEPT
          !.refreshed = client.refreshed,
          !.requests = [i \in RequestIds |->
              IF client.requests[i].status \in {"sent", "queued", "refreshing"}
              THEN [client.requests[i] EXCEPT !.status = "aborted"]
              ELSE client.requests[i]]]
    /\ UNCHANGED server

\* the page after a login or a reload, with or without the token in memory
\* and the token in localStorage
InitClient ==
    /\ now = 0
    /\ advances = 0
    /\ users = SeedUsers
    /\ refreshTokens = {}
    /\ nextId = 1
    /\ pc = [p \in Procs |-> "idle"]
    /\ req = [p \in Procs |-> IdleReq]
    /\ last = NoResponse
    /\ issued = {}
    /\ revoked = [c \in Causes |-> {}]
    /\ forced = [u \in UserIds |-> FALSE]
    /\ \E a \in {NoStored, LoginPair}, r \in {NoStored, LoginPair} :
          client = [PageLoad(r) EXCEPT !.accessToken = a]

NextClient ==
    \/ \E i \in RequestIds : Send(i)
    \/ \E i \in RequestIds : ResponseOk(i)
    \/ \E i \in RequestIds, status \in HttpErrors : ResponseError(i, status)
    \/ \E i \in RequestIds, outcome \in RefreshOutcomes : RefreshResponse(i, outcome)
    \/ Navigate

SpecClient == InitClient /\ [][NextClient]_vars

----------------------------------------------------------------------------
(* Two principals with a session each *)

\* the refresh token of a login of principal u at second 0
LoginToken(u) == generateRefreshToken(JwtPayload(SeedUsers[u]), 0)

\* the administrator and the client have both logged in at second 0
InitIsolation ==
    /\ now = 0
    /\ advances = 0
    /\ users = SeedUsers
    /\ refreshTokens =
          {[id |-> 1, token |-> LoginToken("admin"), userId |-> "admin",
            expiresAt |-> SevenDays],
           [id |-> 2, token |-> LoginToken("john"), userId |-> "john",
            expiresAt |-> SevenDays]}
    /\ nextId = 3
    /\ pc = [p \in Procs |-> "idle"]
    /\ req = [p \in Procs |-> IdleReq]
    /\ last = NoResponse
    /\ issued = {LoginToken("admin"), LoginToken("john")}
    /\ revoked = [c \in Causes |-> {}]
    /\ forced = [u \in UserIds |-> FALSE]
    /\ client = PageLoad(NoStored)

\* the operations that write refreshToken rows, one request at a time, with
\* either principal as the caller
NextIsolation ==
    \/ Advance(1)
    \/ \E p \in Workers, e \in LoginEmails, pw \in Passwords, rm \in BOOLEAN :
          LoginBody(p, e, pw, rm) /\ LoginFind(p, e, pw, rm)
    \/ \E p \in Workers : LoginCreate(p)
    \/ \E p \in Workers, t \in PresentableTokens : RefreshCall(p, t)
    \/ \E p \in Workers : RefreshFind(p)
    \/ \E p \in Workers : RefreshDelete(p)
    \/ \E p \in Workers : RefreshCreate(p)
    \/ \E p \in Workers, t \in PresentableTokens : Logout(p, t)
    \/ \E p \in Workers, b \in Bearers : LogoutAll(p, b)
    \/ \E p \in Workers, b \in Bearers \ {AdminAccess}, cur \in Passwords,
          new \in {"Other456!"} :
          /\ Body(p, "changePassword", b, cur = "Client123!")
          /\ ChangePasswordFind(p, b, cur, new)
    \/ \E p \in Workers, b \in Bearers, id \in ClientIds \ {"admin"},
          new \in {"Other456!"} :
          /\ Body(p, "adminReset", b, id = AbsentId)
          /\ AdminResetFind(p, b, id, new)
    \/ \E p \in Workers : PasswordUpdate(p)
    \/ \E p \in Workers : PasswordLogoutAll(p)

SpecIsolation == InitIsolation /\ [][NextIsolation]_vars

----------------------------------------------------------------------------
(* Claims *)

AccountDisabled == UnauthorizedError("Account is deactivated")
TokenRevoked == UnauthorizedError("Refresh token not found")

\* the refresh calls in flight
refreshing == {q \in Procs : pc[q] \in {"r_find", "r_delete", "r_create"}}

\* C1: refresh tokens are single-use; in particular the refresh token that a
\* successful refresh returns is never the token that was presented
C1_SingleUse ==
    (last.op = "refresh" /\ last.out = Ok) => last.newRefresh # last.tok

\* C2: of two concurrent refresh calls presenting the same stored token, the
\* one still in flight when the other succeeded never succeeds as well
C2_NotBothSucceed ==
    (last.op = "refresh" /\ "lost" \in last.flags) => last.out # Ok

\* C3: the refresh call that loses the race on a stored token fails with
\* Unauthorized 'Refresh token not found'
C3_LoserTokenRevoked ==
    (last.op = "refresh" /\ "lost" \in last.flags /\ last.out # Ok)
        => last.out = TokenRevoked

\* C4: a refresh call presenting a token whose row a completed logout has
\* deleted does not succeed
C4_LogoutRevokes ==
    (last.op = "refresh" /\ "logout" \in last.flags) => last.out # Ok

\* C5: a refresh call presenting a token whose row a completed logoutAll of
\* its principal has deleted does not succeed
C5_LogoutAllRevokes ==
    (last.op = "refresh" /\ "logoutAll" \in last.flags) => last.out # Ok

\* C6: once a password change or reset of a principal has returned, no login
\* of the principal has succeeded since and no refresh for the principal is in
\* flight, the principal owns no refreshToken row
C6_ForcedReauthentication ==
    \A u \in UserIds :
        (forced[u] /\ \A q \in refreshing : req[q].uid # u) => rowsOf(u) = {}

\* C7: a refresh call presenting a token whose row a completed changePassword
\* of its principal has deleted does not succeed
C7_ChangePasswordRevokes ==
    (last.op = "refresh" /\ "changePassword" \in last.flags) => last.out # Ok

\* C8: a login that presents the correct secret of an account whose active
\* flag is false ends with 'Account is deactivated' and creates no
\* refreshToken row
C8_InactiveLogin ==
    [][(last'.op = "login" /\ "pwOk" \in last'.flags /\ "active" \notin last'.flags)
          => (last'.out = AccountDisabled /\ refreshTokens' = refreshTokens)]_vars

C8_Witness ==
    /\ last.op = "login"
    /\ "pwOk" \in last.flags
    /\ "active" \notin last.flags
    /\ last.out = AccountDisabled
    /\ ~users["john"].active

\* C9: a login that presents the correct secret of an active account succeeds
C9_LoginSucceeds ==
    (last.op = "login" /\ {"pwOk", "active"} \subseteq last.flags) => last.out = Ok

\* C10: when an administrator's DELETE or PATCH on a client has returned and
\* left the client inactive, the client owns no refreshToken row
C10_DeactivationCascades ==
    (last.op \in {"deactivate", "patchClient"} /\ last.out = Ok
        /\ ~users[last.uid].active) => rowsOf(last.uid) = {}

\* C11: authenticate attaches req.user only for a principal whose user row
\* exists and is active at the time of the check
C11_AuthenticateActive ==
    \A p \in Procs :
        req[p].user # NoPrincipal =>
            /\ userById(req[p].user.userId) # NoUser
            /\ userById(req[p].user.userId).active

C11_Witness ==
    /\ last.op = "authenticate"
    /\ last.flags = {}
    /\ last.out = UnauthorizedError("User not found or inactive")
    /\ ~users["john"].active

\* C12: authenticate ends a request without bearer token with 'No token
\* provided', one whose token is signed with another key (the refresh key
\* included) with 'Invalid token', one whose correctly signed token is past
\* its expiry with 'Token expired', and passes none of them on
C12_AuthenticateErrors ==
    /\ \A p \in Procs : pc[p] = "mw_next" => req[p].flags = {}
    /\ last.op = "authenticate" =>
          /\ "noToken" \in last.flags
                => last.out = UnauthorizedError("No token provided")
          /\ "wrongKey" \in last.flags
                => last.out = UnauthorizedError("Invalid token")
          /\ ("pastExpiry" \in last.flags /\ "wrongKey" \notin last.flags)
                => last.out = UnauthorizedError("Token expired")

C12_Witness ==
    /\ last.op = "authenticate"
    /\ last.flags = {"pastExpiry"}
    /\ last.out = UnauthorizedError("Token expired")

\* C13: requireOwnership ends the request of a CLIENT whose owner field (the
\* path parameter, or the body field when there is no path parameter) names
\* another principal with Forbidden, and passes every request of an ADMIN
C13_Ownership ==
    last.op = "requireOwnership" =>
        /\ ("CLIENT" \in last.flags /\
               ("paramOther" \in last.flags \/
                  {"noParam", "bodyOther"} \subseteq last.flags))
              => last.out = ForbiddenError("Cannot access another user's data")
        /\ "ADMIN" \in last.flags => last.out = Ok

C13_Witness ==
    /\ last.op = "requireOwnership"
    /\ {"CLIENT", "paramOther"} \subseteq last.flags
    /\ last.out = ForbiddenError("Cannot access another user's data")

\* C14: requireRole(allowed) ends a request without req.user with 'Not
\* authenticated', one whose principal's role is not in allowed with
\* Forbidden, and passes every other request
C14_RequireRole ==
    last.op = "requireRole" =>
        last.out =
            IF "noPrincipal" \in last.flags
            THEN UnauthorizedError("Not authenticated")
            ELSE IF \E role \in {"ADMIN", "CLIENT"} :
                        ("as" \o role) \in last.flags /\ role \in last.flags
            THEN Ok
            ELSE ForbiddenError("Insufficient permissions")

C14_Witness ==
    /\ last.op = "requireRole"
    /\ last.flags = {"ADMIN", "asCLIENT"}
    /\ last.out = ForbiddenError("Insufficient permissions")

\* C15: refresh ends a call whose token is signed with another key with
\* 'Invalid refresh token', and a call whose correctly signed token is past
\* its embedded expiry with a different error
C15_RefreshDistinguishes ==
    last.op = "refresh" =>
        /\ "wrongKey" \in last.flags
              => last.out = UnauthorizedError("Invalid refresh token")
        /\ ("pastExpiry" \in last.flags /\ "wrongKey" \notin last.flags)
              => last.out # UnauthorizedError("Invalid refresh token")

\* C16: logout(T) succeeds for every token T, stored or not, leaves no row
\* of T and adds none, and a second logout(T) right after the first leaves
\* the refreshToken table as the first left it
C16_LogoutIdempotent ==
    [][last'.op = "logout" =>
          /\ last'.out = Ok
          /\ last'.tok \notin storedTokens'
          /\ refreshTokens' \subseteq refreshTokens
          /\ (last.op = "logout" /\ last.tok = last'.tok)
                => refreshTokens' = refreshTokens]_vars

C16_Witness ==
    /\ last.op = "logout"
    /\ last.out = Ok
    /\ last.tok \in revoked["logout"]
    /\ refreshTokens # {}

\* C17: adminResetPassword runs only for a requester with role ADMIN; for
\* an existing target it stores the new hash and leaves the target no
\* refreshToken row; for an absent target it ends with NotFound and changes
\* nothing; and a step that changes a principal's hash or rows belongs to a
\* request of an ADMIN or to a login or refresh of that principal
C17_AdminReset ==
    [][/\ last'.op = "adminReset" /\ last'.out = Ok =>
             /\ last'.user.role = "ADMIN"
             /\ \A r \in refreshTokens' : r.userId # last'.uid
             /\ \E p \in Procs : /\ req[p].op = "adminReset"
                                  /\ users'[last'.uid].passwordHash = req[p].hash
       /\ last'.op = "adminReset" /\ last'.out = NotFoundError("User") =>
             users' = users /\ refreshTokens' = refreshTokens
       /\ \A u \in UserIds :
             (users'[u].passwordHash # users[u].passwordHash \/ rowsOf(u)' # rowsOf(u))
                => \E p \in Procs :
                      \/ req[p].user.role = "ADMIN"
                      \/ req[p].op \in {"login", "refresh"} /\ req[p].uid = u]_vars

C17_Witness ==
    /\ last.op = "adminReset"
    /\ last.out = Ok
    /\ last.uid = "john"
    /\ revoked["adminReset"] # {}
    /\ users["john"].passwordHash = hashPassword("Other456!")

\* C18: an access token handed out with a refresh token passes authenticate
\* as long as it is unexpired and its principal active, whatever logout,
\* logoutAll or password change has happened since; POST /auth/logout-all
\* with such a token succeeds
C18_AccessNotRevocable ==
    /\ \A t \in issued :
          (bearerKind(AccessOf(t)) = {} /\ userById(t.userId).active)
              => authenticate(AccessOf(t)) = Ok
    /\ (last.op = "logoutAll" /\ last.flags = {}) => last.out = Ok

C18_Witness ==
    /\ last.op = "logoutAll"
    /\ last.out = Ok
    /\ \E t \in revoked["changePassword"] :
          /\ issued = {t}
          /\ last.user = payloadOf(t)
          /\ t \notin storedTokens

\* C19: no step changes a principal's role, which stays the one of its
\* creation, and a step that changes a principal's active flag belongs to
\* an administrator's DELETE or PATCH on the client
C19_RoleNotSelfService ==
    [][\A u \in UserIds :
          /\ users'[u].role = users[u].role
          /\ users'[u].role = SeedUsers[u].role
          /\ users'[u].active # users[u].active
                => \E p \in Procs : /\ req[p].op \in {"deactivate", "patchClient"}
                                     /\ req[p].user.role = "ADMIN"]_vars

C19_Witness ==
    /\ last.op = "updateProfile"
    /\ last.out = Ok
    /\ last.user.role = "CLIENT"
    /\ users["john"].name = "Johnny"
    /\ users["john"].role = "CLIENT"
    /\ users["john"].active

\* C20: login ends with 'Account is deactivated' only when the presented
\* secret verifies against the stored hash
C20_DisabledAfterPassword ==
    (last.op = "login" /\ last.out = AccountDisabled) => "pwOk" \in last.flags

\* C21: a successful refresh is a one-for-one rotation: its delete removes
\* the row of the presented token and no other, its create adds one row and
\* removes none; the new row belongs to the owner of the replaced one and
\* expires seven days after a moment of the call, whatever the replaced row's
\* expiry was; both new tokens carry the owner's id, email and role
C21_Rotation ==
    [][/\ \A p \in Procs :
             (pc[p] = "r_delete" /\ pc'[p] = "r_create") =>
                 /\ rowByToken(refreshTokens, req[p].tok) \in refreshTokens
                 /\ rowByToken(refreshTokens, req[p].tok).id = req[p].rowId
                 /\ rowByToken(refreshTokens, req[p].tok).userId = req[p].uid
                 /\ refreshTokens' =
                       refreshTokens \ {rowByToken(refreshTokens, req[p].tok)}
       /\ (last'.op = "refresh" /\ last'.out = Ok) =>
             \E row \in refreshTokens' \ refreshTokens :
                 /\ refreshTokens' = refreshTokens \cup {row}
                 /\ row.token = last'.newRefresh
                 /\ row.userId = last'.uid
                 /\ row.expiresAt = last'.expiresAt
                 /\ row.expiresAt - SevenDays >= last'.newRefresh.iat
                 /\ row.expiresAt - SevenDays <= now'
                 /\ payloadOf(last'.newRefresh) = JwtPayload(users'[last'.uid])
                 /\ payloadOf(last'.newAccess) = JwtPayload(users'[last'.uid])
                 /\ last'.newRefresh.key = "refresh"
                 /\ last'.newAccess.key = "access"]_vars

C21_Witness ==
    /\ last.op = "refresh"
    /\ last.out = Ok
    /\ "longer" \in last.flags
    /\ last.expiresAt = now + SevenDays
    /\ \E row \in refreshTokens :
          row.token = last.newRefresh /\ row.expiresAt = last.expiresAt

\* C22: a refresh call presenting a token whose stored row has its expiresAt
\* in the past ends with 'Refresh token expired' (having deleted the row)
C22_LazyExpiry ==
    (last.op = "refresh" /\ "rowExpired" \in last.flags)
        => last.out = UnauthorizedError("Refresh token expired")

\* C23: a request in which a record-store call raised ends in INTERNAL_ERROR,
\* for every operation of the session service and for authenticate; it never
\* succeeds and never ends in Unauthorized, Forbidden, NotFound or BadRequest
C23_NothingSwallowed ==
    "storeError" \in last.flags => last.out = errorHandlerUnknown

C23_Witness ==
    /\ last.op = "authenticate"
    /\ "storeError" \in last.flags
    /\ last.out = errorHandlerUnknown
    /\ issued # {}

\* the refresh requests of the interceptor that are in flight
refreshInFlight == {i \in RequestIds : client.requests[i].status = "refreshing"}

\* C24 as stated: at most one refresh request of the interceptor is in flight;
\* every 401 response arriving while isRefreshing is true puts its request on
\* failedQueue and starts no refresh; a successful refresh re-sends every
\* queued request with the new access token
C24_AsStated ==
    [][/\ Cardinality(refreshInFlight') <= 1
       /\ (client'.event.kind = "401" /\ client.isRefreshing) =>
             /\ client'.event.id \in client'.failedQueue
             /\ refreshInFlight' = refreshInFlight
       /\ client'.event.kind = "success" =>
             \A q \in client.failedQueue :
                 /\ client'.requests[q].status = "sent"
                 /\ client'.requests[q].auth = client'.accessToken]_vars

\* C24 amended: as stated for the 401 of a request that has not been retried;
\* the 401 of a request that was retried already is rejected, and starts no
\* refresh either
C24_SingleFlight ==
    [][/\ Cardinality(refreshInFlight') <= 1
       /\ (client'.event.kind = "401" /\ client.isRefreshing) =>
             /\ refreshInFlight' = refreshInFlight
             /\ IF client.requests[client'.event.id]._retry
                THEN /\ client'.requests[client'.event.id].status = "rejected"
                     /\ client'.failedQueue = client.failedQueue
                ELSE /\ client'.requests[client'.event.id].status = "queued"
                     /\ client'.failedQueue =
                           client.failedQueue \cup {client'.event.id}
       /\ client'.event.kind = "success" =>
             /\ client'.failedQueue = {}
             /\ client'.accessToken \notin {NoStored, client.accessToken}
             /\ \A q \in client.failedQueue :
                   /\ client'.requests[q].status = "sent"
                   /\ client'.requests[q].auth = client'.accessToken]_vars

C24_Witness ==
    /\ client.event.kind = "success"
    /\ \E q \in RequestIds \ {client.event.id} :
          /\ client.requests[q].status = "sent"
          /\ ~client.requests[q]._retry
          /\ client.requests[q].auth = client.accessToken
    /\ \E q \in RequestIds : client.requests[q].status = "new"

\* C25: whenever no refresh request of the interceptor is in flight,
\* isRefreshing is false and no request is left waiting on failedQueue:
\* every exit path has settled the queued requests
C25_QueueSettled ==
    refreshInFlight = {} =>
        /\ ~client.isRefreshing
        /\ client.failedQueue = {}
        /\ \A i \in RequestIds : client.requests[i].status # "queued"

\* C26: the refresh token that a successful login or refresh returns is the
\* token of no row stored when its row is created and, for a refresh, is not
\* the token that was presented
C26_FreshToken ==
    [][(last'.op \in {"login", "refresh"} /\ last'.out = Ok) =>
          /\ last'.newRefresh \notin storedTokens
          /\ last'.op = "refresh" => last'.newRefresh # last'.tok]_vars

\* C27: a refresh call presenting a token whose row exists, with expiresAt in
\* the future and an active owner, succeeds
C27_HonoursLiveRow ==
    (last.op = "refresh" /\ "rowLive" \in last.flags) => last.out = Ok

\* C28: requireOwnership passes the request of a CLIENT whose owner field is
\* absent or empty both in the path parameters and in the body; when the
\* field is in both, the outcome depends on the path parameter alone
C28_OwnershipResolution ==
    (last.op = "requireOwnership" /\ "CLIENT" \in last.flags) =>
        /\ {"noParam", "noBody"} \subseteq last.flags => last.out = Ok
        /\ (last.flags \cap {"noParam", "noBody"} = {}) =>
              last.out = IF "paramOther" \in last.flags
                         THEN ForbiddenError("Cannot access another user's data")
                         ELSE Ok

C28_Witness ==
    /\ last.op = "requireOwnership"
    /\ last.flags = {"CLIENT", "bodyOther"}
    /\ last.out = Ok

\* C29: a login or refresh that fails has changed no user row and no
\* refreshToken row, except that a refresh ending with 'Refresh token
\* expired' has removed the row it found; in particular no refresh fails
\* after it has deleted the row it rotates
C29_FailureFrame ==
    [][(last'.op \in {"login", "refresh"} /\ last'.out # Ok) =>
          /\ users' = users
          /\ \A p \in Procs : pc[p] = "r_create" => pc'[p] = "r_create"
          /\ IF last'.out = UnauthorizedError("Refresh token expired")
             THEN \E p \in Procs :
                     /\ pc[p] = "r_delete"
                     /\ refreshTokens' = deleteById(refreshTokens, req[p].rowId)
             ELSE refreshTokens' = refreshTokens]_vars

\* C30: a step changes the refreshToken rows of a principal only as part of
\* a login, refresh, logoutAll, changePassword or adminResetPassword for that
\* principal or of a logout of one of its tokens; the rows that logout(T) and
\* refresh(T) remove are rows of T; and the owner of every row is the userId
\* in the claims of its token
C30_Isolation ==
    /\ [](\A r \in refreshTokens : r.userId = r.token.userId)
    /\ [][/\ \A u \in UserIds :
                rowsOf(u)' # rowsOf(u) =>
                    \/ \E p \in Procs : /\ pc[p] # "idle"
                                         /\ pc'[p] # pc[p]
                                         /\ req[p].uid = u
                    \/ /\ last'.op \in {"logout", "logoutAll"}
                       /\ last'.out = Ok
                       /\ last'.uid = u
          /\ last'.op = "logout" =>
                \A r \in refreshTokens \ refreshTokens' : r.token = last'.tok
          /\ \A p \in Procs :
                (pc[p] = "r_delete" /\ pc'[p] # "r_delete") =>
                    \A r \in refreshTokens \ refreshTokens' : r.token = req[p].tok]_vars

C30_Witness ==
    /\ last.op = "logoutAll"
    /\ last.out = Ok
    /\ last.uid = "john"
    /\ LoginToken("john") \in revoked["logoutAll"]
    /\ rowsOf("john") = {}
    /\ rowsOf("admin") # {}

====
